---- MODULE Spec2Model ----
(***************************************************************************)
(* Model of the vendored request sanitizer                                 *)
(* node_modules/@exortek/express-mongo-sanitize/index.js.                  *)
(*                                                                         *)
(* A JavaScript string is a sequence of character tokens; a JavaScript     *)
(* value is a tagged record (t = "str", "num", "bool", "null", "undef",    *)
(* "date", "arr", "obj").  An object is the sequence of its own enumerable *)
(* entries <<key, value>> in iteration order.                              *)
(***************************************************************************)
EXTENDS Integers, Sequences, FiniteSets, TLC

(***************************************************************************)
(* Characters                                                              *)
(***************************************************************************)

\* The characters the inputs are drawn from.  "SOH" stands for U+0001, a
\* control character that is not white space; "A" is an upper-case letter.
\* The alphabet holds no double quote and no square bracket, so the quoted
\* local part and the address-literal domain of isEmail cannot occur.
Alphabet == {"a", "A", "$", ".", "@", " ", "SOH"}

\* [a-z0-9] under the i flag
AlNum == {"a", "b", "A", "B", "0", "1"}

\* the atom characters of the local part, under the i flag
AText == AlNum \cup {"!", "#", "$", "%", "&", "'", "*", "+", "/", "=", "?",
                     "^", "_", "BACKTICK", "{", "|", "}", "~", "-"}

\* what \s and String.prototype.trim treat as white space
WhiteSpace == {" "}

\* [\u0000-\u001F\u007F-\u009F]
ControlChars == {"SOH"}

\* the class of PATTERNS[2]: backslash, slash, braces, dot, parentheses,
\* star, plus, question mark, bar, square brackets, caret
MetaChars == {"\\", "/", "{", "}", ".", "(", "*", "+", "?", "|", "[", "]", "^", ")"}

toLowerCase(c) == IF c = "A" THEN "a" ELSE IF c = "B" THEN "b" ELSE c

(***************************************************************************)
(* Values                                                                  *)
(***************************************************************************)
Undef == [t |-> "undef"]
Null == [t |-> "null"]
Num(n) == [t |-> "num", n |-> n]
Bool(b) == [t |-> "bool", b |-> b]
Str(s) == [t |-> "str", s |-> s]
DateV == [t |-> "date"]
Arr(items) == [t |-> "arr", items |-> items]
Obj(pairs) == [t |-> "obj", pairs |-> pairs]

isString(value) == value.t = "str"

isArray(value) == value.t = "arr"

isPrimitive(value) == value.t \in {"null", "undef", "bool", "num"}

isDate(value) == value.t = "date"

\* JavaScript truthiness: !!value
Truthy(value) ==
    CASE value.t \in {"null", "undef"} -> FALSE
      [] value.t = "num" -> value.n # 0
      [] value.t = "bool" -> value.b
      [] value.t = "str" -> value.s # <<>>
      [] OTHER -> TRUE

isPlainObject(obj) == Truthy(obj) /\ obj.t = "obj"

isObjectEmpty(obj) == IF ~isPlainObject(obj) THEN FALSE ELSE Len(obj.pairs) = 0

(***************************************************************************)
(* isEmail                                                                 *)
(***************************************************************************)

\* positions of character c in s
Positions(s, c) == {i \in 1..Len(s) : s[i] = c}

\* the maximal runs of s between the occurrences of character c, as a set of
\* <<first, last>> index pairs (an empty run has last = first - 1)
Runs(s, c) ==
    LET cuts == Positions(s, c) \cup {0, Len(s) + 1}
    IN {<<i + 1, j - 1>> : <<i, j>> \in
          {p \in cuts \X cuts : p[1] < p[2] /\ \A k \in cuts : ~(p[1] < k /\ k < p[2])}}

\* the unquoted local part: one or more atoms separated by single dots
IsDotAtom(s) ==
    /\ Len(s) > 0
    /\ \A i \in 1..Len(s) : s[i] \in AText \cup {"."}
    /\ \A r \in Runs(s, ".") : r[2] >= r[1]

\* the host-name domain: two or more labels separated by dots, each label
\* alphanumeric at both ends with alphanumerics and hyphens inside
IsHostName(s) ==
    /\ \A i \in 1..Len(s) : s[i] \in AlNum \cup {"-", "."}
    /\ Positions(s, ".") # {}
    /\ \A r \in Runs(s, ".") :
          /\ r[2] >= r[1]
          /\ s[r[1]] \in AlNum
          /\ s[r[2]] \in AlNum

isEmail(val) ==
    /\ isString(val)
    /\ LET s == val.s
           at == Positions(s, "@")
       IN /\ Cardinality(at) = 1
          /\ LET p == CHOOSE i \in at : TRUE
             IN /\ IsDotAtom(SubSeq(s, 1, p - 1))
                /\ IsHostName(SubSeq(s, p + 1, Len(s)))

(***************************************************************************)
(* PATTERNS and regular-expression matching                                *)
(***************************************************************************)
MinOf(S) == CHOOSE m \in S : \A k \in S : m <= k

MaxOf(S) == CHOOSE m \in S : \A k \in S : m >= k

\* The five frozen patterns, by name, in source order.
PATTERNS == <<"dollar", "dot", "meta", "control", "template">>

\* the character class of a one-character pattern
ClassOf(p) ==
    CASE p = "dollar" -> {"$"}
      [] p = "dot" -> {"."}
      [] p = "meta" -> MetaChars
      [] p = "control" -> ControlChars
      [] OTHER -> {}

\* Length of the match of PATTERNS[4] that starts at position i (0: none).
\* First alternative: an opening brace, white space, a dollar.  Second
\* alternative: an optional dollar, an opening brace, then greedily up to
\* the last closing brace.
TemplateLen(s, i) ==
    LET n == Len(s)
        dollarAt == {q \in (i + 1)..n :
                        s[q] = "$" /\ \A j \in (i + 1)..(q - 1) : s[j] \in WhiteSpace}
        open == IF s[i] = "$" /\ i < n /\ s[i + 1] = "{" THEN i + 1
                ELSE IF s[i] = "{" THEN i ELSE 0
        closeAt == {e \in (open + 1)..n : s[e] = "}"}
    IN IF s[i] = "{" /\ dollarAt # {} THEN MinOf(dollarAt) - i + 1
       ELSE IF open > 0 /\ closeAt # {} THEN MaxOf(closeAt) - i + 1
       ELSE 0

\* length of the match of pattern p of string s starting at position i
MatchLen(p, s, i) ==
    IF i > Len(s) THEN 0
    ELSE IF p = "template" THEN TemplateLen(s, i)
    ELSE IF s[i] \in ClassOf(p) THEN 1 ELSE 0

\* The combined pattern is the alternation of the sources in list order: at a
\* position the first alternative that matches there is taken.
CombinedLen(patterns, s, i) ==
    LET hits == {k \in 1..Len(patterns) : MatchLen(patterns[k], s, i) > 0}
    IN IF hits = {} THEN 0 ELSE MatchLen(patterns[MinOf(hits)], s, i)

\* str.replace(combinedPattern, replaceWith), scanning from position i
RECURSIVE replaceFirstOnly(_, _, _, _)
\* what replace would do with a combined pattern lacking the g flag: only
\* the first match is replaced
replaceFirstOnly(s, patterns, replaceWith, i) ==
    IF i > Len(s) THEN <<>>
    ELSE LET m == CombinedLen(patterns, s, i)
         IN IF m > 0 THEN replaceWith \o SubSeq(s, i + m, Len(s))
            ELSE <<s[i]>> \o replaceFirstOnly(s, patterns, replaceWith, i + 1)

RECURSIVE replace(_, _, _, _)
replace(s, patterns, replaceWith, i) ==
    IF i > Len(s) THEN <<>>
    ELSE LET m == CombinedLen(patterns, s, i)
         IN IF m > 0 THEN replaceWith \o replace(s, patterns, replaceWith, i + m)
            ELSE <<s[i]>> \o replace(s, patterns, replaceWith, i + 1)

trim(s) ==
    LET keep == {i \in 1..Len(s) : s[i] \notin WhiteSpace}
    IN IF keep = {} THEN <<>> ELSE SubSeq(s, MinOf(keep), MaxOf(keep))

toLower(s) == [i \in 1..Len(s) |-> toLowerCase(s[i])]

\* result.slice(0, n)
slice(s, n) == SubSeq(s, 1, IF n < Len(s) THEN n ELSE Len(s))

\* RegExp.prototype.test of a global pattern whose lastIndex is last: the
\* search starts at lastIndex; a match moves lastIndex to its end, a failure
\* resets it to 0.
regexTest(p, s, last) ==
    LET hits == {i \in (last + 1)..Len(s) : MatchLen(p, s, i) > 0}
    IN IF hits = {} THEN [m |-> FALSE, lastIndex |-> 0]
       ELSE [m |-> TRUE,
             lastIndex |-> MinOf(hits) - 1 + MatchLen(p, s, MinOf(hits))]

\* patterns.some((pattern) => pattern.test(s)) from pattern k on, with the
\* lastIndex of every pattern in li; stops at the first match
RECURSIVE somePatternTest(_, _, _, _)
somePatternTest(patterns, s, li, k) ==
    IF k > Len(patterns) THEN [m |-> FALSE, li |-> li]
    ELSE LET r == regexTest(patterns[k], s, li[k])
             li2 == [li EXCEPT ![k] = r.lastIndex]
         IN IF r.m THEN [m |-> TRUE, li |-> li2]
            ELSE somePatternTest(patterns, s, li2, k + 1)

(***************************************************************************)
(* The sanitizers                                                          *)
(***************************************************************************)

\* An allowedKeys / deniedKeys / skipRoutes field is a Set after setup; an
\* override given to req.sanitize may put an Array in its place.
SetOf(elems) == [kind |-> "Set", elems |-> elems]

ArrayOf(elems) == [kind |-> "Array", elems |-> elems]

\* a RegExp of PATTERNS and a function, as option values
RegExpV(p) == [t |-> "regexp", p |-> p]

Fn(f) == [t |-> "function", f |-> f]

\* a one-word string such as a section name, a mode, an option name
Word(w) == Str(<<w>>)

\* the value of an option that the caller did not give
Absent == [t |-> "absent"]

isFunction(value) == value.t = "function"

\* obj[key] of a plain object
Get(obj, key) ==
    IF \E i \in 1..Len(obj.pairs) : obj.pairs[i][1] = key
    THEN obj.pairs[CHOOSE i \in 1..Len(obj.pairs) : obj.pairs[i][1] = key][2]
    ELSE Undef

OptionNames ==
    <<"replaceWith", "removeMatches", "sanitizeObjects", "mode", "skipRoutes",
      "customSanitizer", "recursive", "removeEmpty", "patterns", "allowedKeys",
      "deniedKeys", "stringOptions", "arrayOptions", "debug">>

DEFAULT_OPTIONS ==
    [replaceWith |-> Str(<<>>),
     removeMatches |-> Bool(FALSE),
     sanitizeObjects |-> Arr(<<Word("body"), Word("query")>>),
     mode |-> Word("auto"),
     skipRoutes |-> Arr(<<>>),
     customSanitizer |-> Null,
     recursive |-> Bool(TRUE),
     removeEmpty |-> Bool(FALSE),
     patterns |-> Arr([k \in 1..Len(PATTERNS) |-> RegExpV(PATTERNS[k])]),
     allowedKeys |-> Arr(<<>>),
     deniedKeys |-> Arr(<<>>),
     stringOptions |-> Obj(<< <<(<<"trim">>), Bool(FALSE)>>,
                              <<(<<"lowercase">>), Bool(FALSE)>>,
                              <<(<<"maxLength">>), Null>> >>),
     arrayOptions |-> Obj(<< <<(<<"filterNull">>), Bool(FALSE)>>,
                             <<(<<"distinct">>), Bool(FALSE)>> >>),
     debug |-> Obj(<< <<(<<"enabled">>), Bool(FALSE)>>,
                      <<(<<"level">>), Word("info")>>,
                      <<(<<"logSkippedRoutes">>), Bool(FALSE)>> >>)]

\* the options of a caller who gives none
NoOptions == [f \in DOMAIN DEFAULT_OPTIONS |-> Absent]

\* { ...DEFAULT_OPTIONS, ...options }
spread(base, options) ==
    [f \in DOMAIN base |-> IF options[f] = Absent THEN base[f] ELSE options[f]]

\* the predicate of the validators table for an option
validators(key, v) ==
    CASE key = "replaceWith" -> isString(v)
      [] key \in {"removeMatches", "recursive", "removeEmpty"} -> isPrimitive(v)
      [] key \in {"sanitizeObjects", "skipRoutes", "patterns"} -> isArray(v)
      [] key = "mode" -> v \in {Word("auto"), Word("manual")}
      [] key = "customSanitizer" -> v = Null \/ isFunction(v)
      [] key \in {"allowedKeys", "deniedKeys"} -> v = Null \/ isArray(v)
      [] key \in {"stringOptions", "arrayOptions"} -> isPlainObject(v)
      [] OTHER -> TRUE

\* the options the validators table has an entry for, in table order
Validated == SubSeq(OptionNames, 1, 13)

\* validateOptions: the first option, in table order, that fails its
\* validator ("none": the call returns)
validateOptions(userOpts) ==
    LET failing == {k \in 1..Len(Validated) : ~validators(Validated[k], userOpts[Validated[k]])}
    IN IF failing = {} THEN "none" ELSE Validated[MinOf(failing)]

\* new Set(list || fallback) of an array of strings
newSet(list, fallback) ==
    LET arr == IF list = Absent \/ ~Truthy(list) THEN fallback ELSE list
    IN SetOf({arr.items[i].s : i \in 1..Len(arr.items)})

\* the value of a number-or-null option: 0 stands for null and undefined,
\* which are as falsy as 0
numberOr0(v) == IF v.t = "num" THEN v.n ELSE 0

\* opts: the configuration the middleware closes over, each field in the
\* form the sanitizers read it
resolve(userOpts, options) ==
    [replaceWith |-> userOpts.replaceWith.s,
     removeMatches |-> Truthy(userOpts.removeMatches),
     sanitizeObjects |-> [i \in 1..Len(userOpts.sanitizeObjects.items) |->
                             userOpts.sanitizeObjects.items[i].s[1]],
     mode |-> userOpts.mode.s[1],
     skipRoutes |-> newSet(options.skipRoutes, DEFAULT_OPTIONS.skipRoutes),
     customSanitizer |-> IF isFunction(userOpts.customSanitizer)
                         THEN userOpts.customSanitizer.f ELSE "null",
     recursive |-> Truthy(userOpts.recursive),
     removeEmpty |-> Truthy(userOpts.removeEmpty),
     patterns |-> [i \in 1..Len(userOpts.patterns.items) |-> userOpts.patterns.items[i].p],
     allowedKeys |-> newSet(options.allowedKeys, DEFAULT_OPTIONS.allowedKeys),
     deniedKeys |-> newSet(options.deniedKeys, DEFAULT_OPTIONS.deniedKeys),
     stringOptions |-> [trim |-> Truthy(Get(userOpts.stringOptions, <<"trim">>)),
                        lowercase |-> Truthy(Get(userOpts.stringOptions, <<"lowercase">>)),
                        maxLength |-> numberOr0(Get(userOpts.stringOptions, <<"maxLength">>))],
     arrayOptions |-> [filterNull |-> Truthy(Get(userOpts.arrayOptions, <<"filterNull">>)),
                       distinct |-> Truthy(Get(userOpts.arrayOptions, <<"distinct">>))]]

\* the configuration of expressMongoSanitize() called with no options
DefaultConfiguration == resolve(spread(DEFAULT_OPTIONS, NoOptions), NoOptions)

\* what sanitizeString would do with the truncation placed before the trim
sanitizeStringSliceFirst(str, options, isValue) ==
    IF ~isString(str) \/ isEmail(str) THEN str
    ELSE LET r1 == replace(str.s, options.patterns, options.replaceWith, 1)
             r2 == IF options.stringOptions.maxLength # 0 /\ isValue
                   THEN slice(r1, options.stringOptions.maxLength) ELSE r1
             r3 == IF options.stringOptions.trim THEN trim(r2) ELSE r2
             r4 == IF options.stringOptions.lowercase THEN toLower(r3) ELSE r3
         IN Str(r4)

sanitizeString(str, options, isValue) ==
    IF ~isString(str) \/ isEmail(str) THEN str
    ELSE LET r1 == replace(str.s, options.patterns, options.replaceWith, 1)
             r2 == IF options.stringOptions.trim THEN trim(r1) ELSE r1
             r3 == IF options.stringOptions.lowercase THEN toLower(r2) ELSE r2
             r4 == IF options.stringOptions.maxLength # 0 /\ isValue
                   THEN slice(r3, options.stringOptions.maxLength) ELSE r3
         IN Str(r4)

\* What a sanitizer call yields: the value returned (or, when err is not
\* "none", the kind of the error thrown) and the lastIndex of every pattern
\* after the call.
Ret(v, li) == [v |-> v, li |-> li, err |-> "none"]

Throw(e, li) == [v |-> Undef, li |-> li, err |-> e]

\* what the assignment would do if an existing key kept its value
AssignIfAbsent(acc, key, value) ==
    IF \E i \in 1..Len(acc) : acc[i][1] = key THEN acc
    ELSE Append(acc, <<key, value>>)

\* acc[key] = value: an existing key keeps its place, a new key is appended
Assign(acc, key, value) ==
    IF \E i \in 1..Len(acc) : acc[i][1] = key
    THEN [i \in 1..Len(acc) |-> IF acc[i][1] = key THEN <<key, value>> ELSE acc[i]]
    ELSE Append(acc, <<key, value>>)

\* what filter would do with a strict test for null: only null and undefined
\* are dropped
RECURSIVE filterNullOnly(_)
filterNullOnly(items) ==
    IF items = <<>> THEN <<>>
    ELSE IF Head(items).t \notin {"null", "undef"}
    THEN <<Head(items)>> \o filterNullOnly(Tail(items))
    ELSE filterNullOnly(Tail(items))

\* result.filter(Boolean)
RECURSIVE filterBoolean(_)
filterBoolean(items) ==
    IF items = <<>> THEN <<>>
    ELSE IF Truthy(Head(items)) THEN <<Head(items)>> \o filterBoolean(Tail(items))
    ELSE filterBoolean(Tail(items))

\* [...new Set(result)]: equal primitives and strings collapse onto their
\* first occurrence; the arrays and objects of a mapped result are fresh
\* references and dates are compared by reference, so none of them collapses.
RECURSIVE distinctOf(_, _)
distinctOf(items, i) ==
    IF i > Len(items) THEN <<>>
    ELSE IF /\ items[i].t \in {"null", "undef", "bool", "num", "str"}
            /\ \E j \in 1..(i - 1) : items[j] = items[i]
    THEN distinctOf(items, i + 1)
    ELSE <<items[i]>> \o distinctOf(items, i + 1)

\* allowedKeys.size: undefined (falsy) on anything that is not a Set
sizeOf(keys) == IF keys.kind = "Set" THEN Cardinality(keys.elems) ELSE 0

RECURSIVE sanitizeValue(_, _, _, _)
RECURSIVE sanitizeValueByTruthiness(_, _, _, _)
RECURSIVE sanitizeArray(_, _, _)
RECURSIVE sanitizeObject(_, _, _)
RECURSIVE mapItems(_, _, _, _, _)
RECURSIVE reduceEntries(_, _, _, _, _)

\* what sanitizeValue would do if it told arrays from objects by typeof
\* alone: every remaining object, arrays and dates too, goes to sanitizeObject
sanitizeValueByTruthiness(value, options, isValue, li) ==
    IF ~Truthy(value) \/ isPrimitive(value) THEN Ret(value, li)
    ELSE IF isString(value) THEN Ret(sanitizeString(value, options, isValue), li)
    ELSE IF value.t = "function" THEN Ret(value, li)
    ELSE sanitizeObject(value, options, li)

\* the map of sanitizeArray goes on after item i gave r
mapNext(r, items, i, acc, options) ==
    IF r.err # "none" THEN r
    ELSE mapItems(items, i + 1, Append(acc, r.v), options, r.li)

\* arr.map((item) => sanitizeValue(item, options, true)) from item i on
mapItems(items, i, acc, options, li) ==
    IF i > Len(items) THEN Ret(Arr(acc), li)
    ELSE mapNext(sanitizeValue(items[i], options, TRUE, li), items, i, acc, options)

\* the filterNull and distinct steps of sanitizeArray on the mapped array
arrayOptionsOf(items, arrayOptions) ==
    IF arrayOptions.filterNull
    THEN IF arrayOptions.distinct THEN distinctOf(filterBoolean(items), 1)
         ELSE filterBoolean(items)
    ELSE IF arrayOptions.distinct THEN distinctOf(items, 1) ELSE items

\* sanitizeArray after the map returned (or threw) mapped
afterMap(mapped, options) ==
    IF mapped.err # "none" THEN mapped
    ELSE Ret(Arr(arrayOptionsOf(mapped.v.items, options.arrayOptions)), mapped.li)

sanitizeArray(arr, options, li) ==
    IF ~isArray(arr) THEN Throw("type_error", li)
    ELSE afterMap(mapItems(arr.items, 1, <<>>, options, li), options)

\* patterns.some((pattern) => pattern.test(s)) when removeMatches is set
removalTest(s, options, li) ==
    IF options.removeMatches THEN somePatternTest(options.patterns, s, li, 1)
    ELSE [m |-> FALSE, li |-> li]

\* the end of the reduce callback: the sanitized value is stored under the
\* sanitized key unless removeEmpty drops it
storeValue(acc, sanitizedKey, sanitized, options) ==
    IF sanitized.err # "none" THEN sanitized
    ELSE IF ~options.removeEmpty \/ Truthy(sanitized.v)
    THEN Ret(Assign(acc, sanitizedKey, sanitized.v), sanitized.li)
    ELSE Ret(acc, sanitized.li)

\* the reduce callback after the removal test of the value gave valTest
afterValueTest(acc, sanitizedKey, val, options, valTest) ==
    IF valTest.m THEN Ret(acc, valTest.li)
    ELSE storeValue(acc, sanitizedKey,
                    sanitizeValue(val, options, TRUE, valTest.li), options)

\* the reduce callback after the removal test of the key gave keyTest
afterKeyTest(acc, key, sanitizedKey, val, options, keyTest) ==
    IF keyTest.m THEN Ret(acc, keyTest.li)
    ELSE IF options.removeEmpty /\ sanitizedKey = <<>> THEN Ret(acc, keyTest.li)
    ELSE IF isEmail(val) /\ key \in options.deniedKeys.elems
    THEN Ret(Assign(acc, sanitizedKey, val), keyTest.li)
    ELSE afterValueTest(acc, sanitizedKey, val, options,
                        IF isString(val) THEN removalTest(val.s, options, keyTest.li)
                        ELSE [m |-> FALSE, li |-> keyTest.li])

\* One call of the reduce callback of sanitizeObject, on accumulator acc and
\* entry [key, val]: the accumulator it returns (v), or the error it throws.
\* has is not a function of an Array, so deniedKeys.has throws when reached.
reduceCallback(acc, key, val, options, li) ==
    IF sizeOf(options.allowedKeys) # 0 /\ key \notin options.allowedKeys.elems
    THEN Ret(acc, li)
    ELSE IF options.deniedKeys.kind # "Set" THEN Throw("TypeError", li)
    ELSE IF key \in options.deniedKeys.elems THEN Ret(acc, li)
    ELSE afterKeyTest(acc, key, sanitizeString(Str(key), options, FALSE).s, val, options,
                      removalTest(key, options, li))

\* the reduce of sanitizeObject goes on after the callback on entry i gave step
reduceNext(step, entries, i, options) ==
    IF step.err # "none" THEN step
    ELSE reduceEntries(entries, i + 1, step.v, options, step.li)

\* Object.entries(obj).reduce(callback, {}) from entry i on
reduceEntries(entries, i, acc, options, li) ==
    IF i > Len(entries) THEN Ret(Obj(acc), li)
    ELSE reduceNext(reduceCallback(acc, entries[i][1], entries[i][2], options, li),
                    entries, i, options)

sanitizeObject(obj, options, li) ==
    IF ~isPlainObject(obj) THEN Throw("type_error", li)
    ELSE reduceEntries(obj.pairs, 1, <<>>, options, li)

sanitizeValue(value, options, isValue, li) ==
    IF ~Truthy(value) \/ isPrimitive(value) \/ isDate(value) THEN Ret(value, li)
    ELSE IF isArray(value) THEN sanitizeArray(value, options, li)
    ELSE IF isPlainObject(value) THEN sanitizeObject(value, options, li)
    ELSE IF isString(value) THEN Ret(sanitizeString(value, options, isValue), li)
    ELSE Ret(value, li)

\* every pattern at lastIndex 0, as when the module is loaded
FreshIndex == [k \in 1..Len(PATTERNS) |-> 0]

(***************************************************************************)
(* Inputs                                                                  *)
(***************************************************************************)

\* longest string of the exhaustive string inputs
MaxStrLen == 2

\* most entries of an input object
MaxPairs == 2

\* most items of an input array
MaxItems == 2

\* all strings over Alphabet of length n
RECURSIVE StringsOfLen(_)
StringsOfLen(n) ==
    IF n = 0 THEN {<<>>}
    ELSE {<<c>> \o s : c \in Alphabet, s \in StringsOfLen(n - 1)}

Strings == UNION {StringsOfLen(n) : n \in 0..MaxStrLen}

EmailStr == <<"a", "@", "a", ".", "a">>

\* longer strings: e-mail addresses and near misses
SampleStrings ==
    {EmailStr,
     <<"$", "@", "a", ".", "A">>,
     <<"a", "@", "a", ".", "a", " ">>,
     <<"a", "@", "a", ".", ".", "a">>,
     <<"a", "$", "@", "a", "a">>,
     <<" ", "A", ".", "$", "a", " ">>}

Keys == {<<"a">>, <<"$", "a">>, <<"A">>, <<"$">>}

Leaves ==
    {Null, Num(0), Num(1), Str(<<"$">>), Str(<<"a", " ", "a">>), Str(EmailStr),
     Str(<<"$", "A">>)}

\* all sequences over S of length n without / with repetition
RECURSIVE SeqsOfLen(_, _)
SeqsOfLen(S, n) ==
    IF n = 0 THEN {<<>>}
    ELSE {<<e>> \o s : e \in S, s \in SeqsOfLen(S, n - 1)}

\* objects of n entries with distinct keys and values in V
ObjectsOfLen(V, n) ==
    {Obj(ps) : ps \in {s \in SeqsOfLen(Keys \X V, n) :
                          \A i, j \in 1..n : i # j => s[i][1] # s[j][1]}}

\* the values of the entries of the exhaustive objects
EntryValues == {Null, Num(1), Str(<<"$">>), Str(EmailStr), Str(<<"$", "A">>)}

FlatObjects == UNION {ObjectsOfLen(EntryValues, n) : n \in 0..MaxPairs}

FlatArrays == {Arr(s) : s \in UNION {SeqsOfLen(Leaves, n) : n \in 0..MaxItems}}

\* containers to nest one level further down
Inner ==
    {Obj(<< <<(<<"$", "a">>), Str(<<"$", "A">>)>> >>),
     Obj(<< <<(<<"a">>), Str(EmailStr)>>, <<(<<"$">>), Num(1)>> >>),
     Arr(<<Str(<<"$">>), Null, Str(EmailStr)>>),
     Arr(<<Obj(<< <<(<<"A">>), Str(<<"a", " ", "a">>)>> >>)>>)}

Nested ==
    {Obj(<< <<k, c>> >>) : k \in Keys, c \in Inner}
      \cup {Obj(<< <<k, c>>, <<(<<"a">>), Str(<<"$">>)>> >>) : k \in Keys \ {<<"a">>}, c \in Inner}
      \cup {Arr(<<c>>) : c \in Inner}
      \cup {Arr(<<c, Str(<<"$">>), c>>) : c \in Inner}

\* longer arrays: repeated items, falsy items, items of no sanitized kind
ArrayExamples ==
    {Arr(<<DateV, Fn("f"), Obj(<< <<(<<"$", "a">>), Fn("f")>>, <<(<<"A">>), DateV>> >>)>>)} \cup
    {Arr(<<Num(1), Num(1), Num(2), Str(<<"a">>), Str(<<"a">>)>>),
     Arr(<<Num(0), Num(1), Null, Str(<<>>), Str(<<"a">>)>>),
     Arr(<<Bool(FALSE), Undef, Str(<<"$">>), Str(<<"a">>), Str(<<"$", "a">>)>>)}

\* an object with a long key and a long value
ObjectExamples ==
    {Obj(<< <<(<<" ", "A", "$", "a", "a">>), Str(<<" ", "A", ".", "$", "a", " ">>)>> >>)}

Values ==
    {Str(s) : s \in Strings \cup SampleStrings}
      \cup {Null, Undef, Num(0), Num(1), Bool(FALSE), Bool(TRUE), DateV, Fn("f")}
      \cup FlatObjects \cup FlatArrays \cup Inner \cup Nested \cup ArrayExamples
      \cup ObjectExamples

\* resolved configurations: the defaults with some options set
Configurations ==
    {DefaultConfiguration}
      \cup {[DefaultConfiguration EXCEPT !.deniedKeys = SetOf(D)] : D \in {{<<"a">>}, {<<"$", "a">>, <<"A">>}}}
      \cup {[DefaultConfiguration EXCEPT !.allowedKeys = SetOf(A)] : A \in {{<<"a">>}, {<<"$", "a">>, <<"A">>}}}
      \cup {[DefaultConfiguration EXCEPT !.allowedKeys = SetOf({<<"a">>, <<"$", "a">>}),
                                    !.deniedKeys = SetOf({<<"a">>})]}
      \cup {[DefaultConfiguration EXCEPT !.stringOptions = so] :
              so \in [trim : BOOLEAN, lowercase : BOOLEAN, maxLength : {0, 2}]}
      \cup {[DefaultConfiguration EXCEPT !.arrayOptions = ao] :
              ao \in [filterNull : BOOLEAN, distinct : BOOLEAN]}
      \cup {[DefaultConfiguration EXCEPT !.removeEmpty = TRUE],
            [DefaultConfiguration EXCEPT !.removeMatches = TRUE],
            [DefaultConfiguration EXCEPT !.recursive = FALSE],
            [DefaultConfiguration EXCEPT !.replaceWith = <<"_">>],
            [DefaultConfiguration EXCEPT !.replaceWith = <<"$", "$">>]}

(***************************************************************************)
(* The middleware                                                          *)
(***************************************************************************)

\* what cleanUrl would do without the split at "?" and "#": the query and the
\* fragment stay in the cleaned path
cleanUrlKeepQuery(url) ==
    IF ~isString(url) \/ ~Truthy(url) THEN Null
    ELSE LET path == url.s
             keep == {i \in 1..Len(path) : path[i] # "/"}
             trimmed == IF keep = {} THEN <<>> ELSE SubSeq(path, MinOf(keep), MaxOf(keep))
         IN IF trimmed # <<>> THEN Str(<<"/">> \o trimmed) ELSE Str(<<"/">>)

\* cleanUrl: null for what is not a non-empty string; otherwise the part
\* before the first "?" or "#", without its leading and trailing slashes,
\* behind one slash
cleanUrl(url) ==
    IF ~isString(url) \/ ~Truthy(url) THEN Null
    ELSE LET s == url.s
             stops == {i \in 1..Len(s) : s[i] \in {"?", "#"}}
             path == IF stops = {} THEN s ELSE SubSeq(s, 1, MinOf(stops) - 1)
             keep == {i \in 1..Len(path) : path[i] # "/"}
             trimmed == IF keep = {} THEN <<>> ELSE SubSeq(path, MinOf(keep), MaxOf(keep))
         IN IF trimmed # <<>> THEN Str(<<"/">> \o trimmed) ELSE Str(<<"/">>)

\* the names of the array indices "0", "1", ... as property keys
IndexKeys == <<"0", "1", "2", "3">>

\* Object.assign(Array.isArray(requestObject) ? [] : {}, requestObject): an
\* array and a plain object are copied, a string spreads into one entry per
\* character, anything else has no own enumerable property
snapshot(requestObject) ==
    IF isArray(requestObject) \/ isPlainObject(requestObject) THEN requestObject
    ELSE IF isString(requestObject)
    THEN Obj([i \in 1..Len(requestObject.s) |->
                 <<(<<IndexKeys[i]>>), Str(<<requestObject.s[i]>>)>>])
    ELSE Obj(<<>>)

\* isWritable(request, prop): the writable flag of the first descriptor of
\* prop on the request or its prototypes
isWritable(request, prop) == request.writable[prop]

\* the write-back of handleRequest: direct assignment when the section is
\* writable, redefinition when it is the plain-object query, else nothing
writeBack(request, name, sanitized) ==
    IF sanitized.err # "none"
    THEN [req |-> request, li |-> sanitized.li, err |-> sanitized.err]
    ELSE IF isWritable(request, name)
    THEN [req |-> [request EXCEPT !.sections[name] = sanitized.v],
          li |-> sanitized.li, err |-> "none"]
    ELSE IF isPlainObject(request.sections[name]) /\ name = "query"
    THEN IF sanitized.v.t \in {"null", "undef"}
         THEN [req |-> request, li |-> sanitized.li, err |-> "TypeError"]
         ELSE [req |-> [request EXCEPT !.sections[name] = sanitized.v,
                                       !.writable[name] = TRUE],
               li |-> sanitized.li, err |-> "none"]
    ELSE [req |-> request, li |-> sanitized.li, err |-> "none"]

\* a call of a sanitizer by handleRequest: the section, the function called
\* ("customSanitizer" or "sanitizeValue"), its two arguments and, for the
\* custom sanitizer, what it returned
SanitizerCall(name, by, arg, options, ret) ==
    [section |-> name, by |-> by, arg |-> arg, opts |-> options, ret |-> ret]

\* the outcome step of the write-back, with the sanitizer call made before it
logged(step, call) ==
    [req |-> step.req, li |-> step.li, err |-> step.err, log |-> <<call>>]

\* the outcome rest of the later sections, after the calls made for an
\* earlier one
after(log, rest) ==
    [req |-> rest.req, li |-> rest.li, err |-> rest.err, log |-> log \o rest.log]

\* The forEach callback of handleRequest for section name: the request
\* after it, the lastIndex of the patterns, and the error thrown if any.
\* returns[name] is what the custom sanitizer, when there is one, returns for
\* that section
forEachCallback(request, name, options, li, returns) ==
    IF ~(Truthy(request.sections[name]) /\ ~isObjectEmpty(request.sections[name]))
    THEN [req |-> request, li |-> li, err |-> "none", log |-> <<>>]
    ELSE IF options.customSanitizer # "null"
    THEN logged(writeBack(request, name, Ret(returns[name], li)),
                SanitizerCall(name, "customSanitizer", snapshot(request.sections[name]),
                              options, returns[name]))
    ELSE logged(writeBack(request, name,
                          sanitizeValue(snapshot(request.sections[name]), options, FALSE, li)),
                SanitizerCall(name, "sanitizeValue", snapshot(request.sections[name]),
                              options, Undef))

RECURSIVE handleSections(_, _, _, _, _)

\* the forEach of handleRequest goes on after the callback on name k gave step
forEachNext(step, options, returns, k) ==
    IF step.err # "none" THEN step
    ELSE after(step.log, handleSections(step.req, options, step.li, returns, k + 1))

\* sanitizeObjects.forEach(callback) from the k-th name on
handleSections(request, options, li, returns, k) ==
    IF k > Len(options.sanitizeObjects)
    THEN [req |-> request, li |-> li, err |-> "none", log |-> <<>>]
    ELSE forEachNext(forEachCallback(request, options.sanitizeObjects[k], options, li, returns),
                     options, returns, k)

handleRequest(request, options, li, returns) ==
    handleSections(request, options, li, returns, 1)

\* Array.from(opts.skipRoutes).some((skipPath) => cleanUrl(skipPath) === cleanedRequestPath)
shouldSkip(opts, url) ==
    \E skipPath \in opts.skipRoutes.elems : cleanUrl(Str(skipPath)) = cleanUrl(url)

\* an option of the overrides given to req.sanitize, in the form the
\* sanitizers read it: a list stays an Array, it is not made a Set
override(key, v) ==
    CASE key = "replaceWith" -> v.s
      [] key \in {"removeMatches", "recursive", "removeEmpty"} -> Truthy(v)
      [] key = "sanitizeObjects" -> [i \in 1..Len(v.items) |-> v.items[i].s[1]]
      [] key = "mode" -> v.s[1]
      [] key \in {"skipRoutes", "allowedKeys", "deniedKeys"} ->
            ArrayOf({v.items[i].s : i \in 1..Len(v.items)})
      [] key = "customSanitizer" -> IF isFunction(v) THEN v.f ELSE "null"
      [] key = "patterns" -> [i \in 1..Len(v.items) |-> v.items[i].p]
      [] key = "stringOptions" ->
            [trim |-> Truthy(Get(v, <<"trim">>)),
             lowercase |-> Truthy(Get(v, <<"lowercase">>)),
             maxLength |-> numberOr0(Get(v, <<"maxLength">>))]
      [] key = "arrayOptions" ->
            [filterNull |-> Truthy(Get(v, <<"filterNull">>)),
             distinct |-> Truthy(Get(v, <<"distinct">>))]

\* { ...opts, ...customOpts }
finalOpts(opts, customOpts) ==
    [f \in DOMAIN opts |->
        IF customOpts[f] = Absent THEN opts[f] ELSE override(f, customOpts[f])]

(***************************************************************************)
(* Requests and setups                                                     *)
(***************************************************************************)

\* requests one middleware serves in a behaviour
MaxRequests == 2

\* calls of req.sanitize a downstream handler makes for one request
MaxSanitizeCalls == 1

\* request paths; "health", "check" and "x" stand for runs of ordinary
\* characters
Urls ==
    {<<"/", "health">>,
     <<"/", "health", "/">>,
     <<"/", "health", "?", "x">>,
     <<"/", "health", "check">>,
     <<"/">>,
     <<"/", "x", "/", "health">>,
     <<"/", "/", "health", "#", "x">>}

Bodies ==
    {Undef,
     Obj(<<>>),
     Obj(<< <<(<<"$", "a">>), Str(<<"$", "A">>)>> >>),
     Arr(<<Str(<<"$">>), Obj(<< <<(<<"$", "a">>), Num(1)>> >>)>>),
     Str(<<"$", "a">>),
     Num(1)}

Queries ==
    {Obj(<<>>),
     Obj(<< <<(<<"a">>), Str(<<"a", ".", "a">>)>>, <<(<<"$">>), Str(EmailStr)>> >>)}

SectionNames == {"body", "query"}

Requests ==
    {[url |-> Str(u),
      sections |-> [body |-> b, query |-> q],
      writable |-> [body |-> wb, query |-> wq],
      sanitize |-> FALSE] :
        u \in Urls, b \in Bodies, q \in Queries, wb \in BOOLEAN, wq \in BOOLEAN}

NoRequest ==
    [url |-> Str(<<"/">>),
     sections |-> [body |-> Undef, query |-> Undef],
     writable |-> [body |-> TRUE, query |-> TRUE],
     sanitize |-> FALSE]

\* the options of a caller who gives these <<name, value>> pairs
Given(pairs) ==
    [f \in DOMAIN DEFAULT_OPTIONS |->
        IF \E p \in pairs : p[1] = f THEN (CHOOSE p \in pairs : p[1] = f)[2] ELSE Absent]

\* option values of the declared type
ValidSettings ==
    {<<"mode", Word("manual")>>,
     <<"skipRoutes", Arr(<<Str(<<"/", "health">>)>>)>>,
     <<"skipRoutes", Arr(<<Str(<<"health", "/">>), Str(<<>>)>>)>>}

\* more option values of the declared type, used one at a time
MoreValidSettings ==
    {<<"sanitizeObjects", Arr(<<Word("body")>>)>>,
     <<"sanitizeObjects", Arr(<<Word("query"), Word("body")>>)>>,
     <<"customSanitizer", Fn("custom")>>,
     <<"replaceWith", Str(<<"_">>)>>,
     <<"removeEmpty", Bool(TRUE)>>,
     <<"removeMatches", Bool(TRUE)>>,
     <<"allowedKeys", Null>>,
     <<"deniedKeys", Arr(<<Str(<<"a">>)>>)>>,
     <<"stringOptions", Obj(<< <<(<<"lowercase">>), Bool(TRUE)>> >>)>>,
     <<"arrayOptions", Obj(<<>>)>>,
     <<"debug", Obj(<< <<(<<"enabled">>), Bool(FALSE)>> >>)>>}

\* option values outside the declared type
InvalidSettings ==
    {<<"replaceWith", Num(1)>>,
     <<"removeMatches", Word("yes")>>,
     <<"removeMatches", Num(1)>>,
     <<"recursive", Null>>,
     <<"removeEmpty", Arr(<<>>)>>,
     <<"sanitizeObjects", Word("body")>>,
     <<"mode", Word("off")>>,
     <<"skipRoutes", Null>>,
     <<"customSanitizer", Word("f")>>,
     <<"patterns", Null>>,
     <<"allowedKeys", Word("a")>>,
     <<"deniedKeys", Obj(<<>>)>>,
     <<"stringOptions", Arr(<<>>)>>,
     <<"arrayOptions", Null>>,
     <<"debug", Word("on")>>}

\* the settings of one call: no two for the same option
Compatible(pairs) == \A p, q \in pairs : p[1] = q[1] => p = q

UserOptions ==
    {Given(ps) : ps \in {S \in SUBSET ValidSettings : Compatible(S)}}
      \cup {Given({p}) : p \in MoreValidSettings \cup InvalidSettings}
      \cup {Given({p, q}) : p \in InvalidSettings, q \in InvalidSettings}

\* the value of an option is of the type the option is declared with
DeclaredType(key, v) ==
    CASE key = "replaceWith" -> v.t = "str"
      [] key \in {"removeMatches", "recursive", "removeEmpty"} -> v.t = "bool"
      [] key \in {"sanitizeObjects", "skipRoutes", "patterns"} -> v.t = "arr"
      [] key = "mode" -> v \in {Word("auto"), Word("manual")}
      [] key = "customSanitizer" -> v.t \in {"function", "null"}
      [] key \in {"allowedKeys", "deniedKeys"} -> v.t \in {"arr", "null"}
      [] key \in {"stringOptions", "arrayOptions", "debug"} -> v.t = "obj"

(***************************************************************************)
(* State                                                                   *)
(***************************************************************************)
VARIABLES
    value,        \* the value handed to the sanitizer
    options,      \* the configuration in force (opts of the middleware)
    lastIndex,    \* lastIndex of each of the PATTERNS (module state)
    result,       \* what the successive sanitizer calls returned
    via,          \* the entry point used: "none", "sanitizeValue", "param"
    userOptions,  \* the options given to expressMongoSanitize
    setup,        \* status "pending", "middleware" (returned) or "type_error"
                  \* (thrown, with the option the message names)
    req,          \* the request object
    received,     \* the request as the middleware received it
    pc,           \* "idle": no request in flight; "handler": next was called,
                  \* downstream handlers run; "error": the middleware threw
    calls         \* per request: next calls and whether one carried an error,
                  \* whether the skip branch was taken, the error the
                  \* middleware threw, response writes, req.sanitize calls,
                  \* whether one was given overrides, the overrides of the
                  \* last one and the error it threw,
                  \* the sanitizer calls made by handleRequest;
                  \* requests served so far

vars == <<value, options, lastIndex, result, via, userOptions, setup, req, received, pc, calls>>

sanVars == <<value, result, via>>

mwVars == <<userOptions, setup, req, received, pc, calls>>

SetupIs(status) == [status |-> status, field |-> "none"]

NoCalls == [next |-> 0, nextError |-> FALSE, skipped |-> FALSE, thrown |-> "none",
            response |-> 0, sanitize |-> 0, overridden |-> FALSE,
            customOpts |-> NoOptions, sanitizeThrown |-> "none", log |-> <<>>,
            served |-> 0]

(***************************************************************************)
(* The sanitizer applied to one value                                      *)
(***************************************************************************)
InitSan ==
    /\ value \in Values
    /\ options \in Configurations
    /\ lastIndex = FreshIndex
    /\ result = <<>>
    /\ via = "none"
    /\ userOptions = NoOptions
    /\ setup = SetupIs("middleware")
    /\ req = NoRequest
    /\ received = NoRequest
    /\ pc = "idle"
    /\ calls = NoCalls

\* sanitizeValue(value, options)
Sanitize ==
    /\ via = "none"
    /\ result' = <<sanitizeValue(value, options, FALSE, lastIndex)>>
    /\ lastIndex' = result'[1].li
    /\ via' = "sanitizeValue"
    /\ UNCHANGED <<value, options>>
    /\ UNCHANGED mwVars

\* the returned value is sanitized once more with the same configuration
SanitizeAgain ==
    /\ via = "sanitizeValue"
    /\ Len(result) = 1
    /\ result[1].err = "none"
    /\ result' = Append(result, sanitizeValue(result[1].v, options, FALSE, lastIndex))
    /\ lastIndex' = result'[2].li
    /\ UNCHANGED <<value, options, via>>
    /\ UNCHANGED mwVars

\* the handler returned by paramSanitizeHandler(options), called with value
paramSanitizeHandler ==
    /\ via = "none"
    /\ isString(value)
    /\ result' = <<Ret(sanitizeString(value, options, TRUE), lastIndex)>>
    /\ via' = "param"
    /\ UNCHANGED <<value, options, lastIndex>>
    /\ UNCHANGED mwVars

NextSan == Sanitize \/ SanitizeAgain \/ paramSanitizeHandler

SpecSan == InitSan /\ [][NextSan]_vars

(***************************************************************************)
(* Setup and request handling                                              *)
(***************************************************************************)
Init ==
    /\ userOptions \in UserOptions
    /\ setup = SetupIs("pending")
    /\ options = DefaultConfiguration
    /\ lastIndex = FreshIndex
    /\ req = NoRequest
    /\ received = NoRequest
    /\ pc = "idle"
    /\ calls = NoCalls
    /\ value = Undef
    /\ result = <<>>
    /\ via = "none"

\* expressMongoSanitize(userOptions): throws, or returns the middleware
expressMongoSanitize ==
    /\ setup.status = "pending"
    /\ \E userOpts \in {spread(DEFAULT_OPTIONS, userOptions)} :
       \E failing \in {validateOptions(userOpts)} :
          IF failing # "none"
          THEN /\ setup' = [status |-> "type_error", field |-> failing]
               /\ UNCHANGED options
          ELSE /\ setup' = SetupIs("middleware")
               /\ options' = resolve(userOpts, userOptions)
    /\ UNCHANGED <<lastIndex, userOptions, req, received, pc, calls>>
    /\ UNCHANGED sanVars

\* what a configured custom sanitizer may return for the sections
CustomReturns ==
    [SectionNames -> {Obj(<< <<(<<"c">>), Num(1)>> >>), Null}]

\* the middleware called with request r
Middleware(r) ==
    /\ setup.status = "middleware"
    /\ pc = "idle"
    /\ calls.served < MaxRequests
    /\ received' = r
    /\ IF shouldSkip(options, r.url)
       THEN /\ req' = r
            /\ calls' = [NoCalls EXCEPT !.served = calls.served + 1, !.next = 1,
                                        !.skipped = TRUE]
            /\ pc' = "handler"
            /\ UNCHANGED lastIndex
       ELSE IF options.mode = "auto"
       THEN \E returns \in CustomReturns :
            \E handled \in {handleRequest(r, options, lastIndex, returns)} :
               /\ req' = handled.req
               /\ lastIndex' = handled.li
               /\ IF handled.err # "none"
                  THEN /\ calls' = [NoCalls EXCEPT !.served = calls.served + 1,
                                                   !.thrown = handled.err,
                                                   !.log = handled.log]
                       /\ pc' = "error"
                  ELSE /\ calls' = [NoCalls EXCEPT !.served = calls.served + 1, !.next = 1,
                                                   !.log = handled.log]
                       /\ pc' = "handler"
       ELSE /\ req' = [r EXCEPT !.sanitize = (options.mode = "manual")]
            /\ calls' = [NoCalls EXCEPT !.served = calls.served + 1, !.next = 1]
            /\ pc' = "handler"
            /\ UNCHANGED lastIndex
    /\ UNCHANGED <<options, userOptions, setup>>
    /\ UNCHANGED sanVars

\* a downstream handler calls req.sanitize(customOpts)
reqSanitize(customOpts) ==
    /\ pc = "handler"
    /\ req.sanitize
    /\ calls.sanitize < MaxSanitizeCalls
    /\ \E returns \in CustomReturns :
       \E handled \in {handleRequest(req, finalOpts(options, customOpts), lastIndex, returns)} :
          /\ req' = handled.req
          /\ lastIndex' = handled.li
          /\ calls' = [calls EXCEPT !.sanitize = @ + 1,
                                    !.overridden = @ \/ customOpts # NoOptions,
                                    !.customOpts = customOpts,
                                    !.sanitizeThrown = handled.err,
                                    !.log = @ \o handled.log]
    /\ UNCHANGED <<options, userOptions, setup, received, pc>>
    /\ UNCHANGED sanVars

\* the downstream handlers, or the host's error handler, are done with the
\* request
Respond ==
    /\ pc \in {"handler", "error"}
    /\ pc' = "idle"
    /\ req' = NoRequest
    /\ received' = NoRequest
    /\ calls' = [NoCalls EXCEPT !.served = calls.served]
    /\ UNCHANGED <<options, lastIndex, userOptions, setup>>
    /\ UNCHANGED sanVars

\* the overrides a downstream handler gives to req.sanitize
SanitizeOverrides ==
    {NoOptions,
     Given({<<"replaceWith", Str(<<"_">>)>>}),
     Given({<<"sanitizeObjects", Arr(<<Word("body")>>)>>}),
     Given({<<"allowedKeys", Arr(<<Str(<<"a">>)>>)>>}),
     Given({<<"deniedKeys", Arr(<<Str(<<"a">>)>>)>>})}

Next ==
    \/ expressMongoSanitize
    \/ \E r \in Requests : Middleware(r)
    \/ \E customOpts \in SanitizeOverrides : reqSanitize(customOpts)
    \/ Respond

Spec == Init /\ [][Next]_vars

(***************************************************************************)
(* What a value contains                                                   *)
(***************************************************************************)

\* the <<key, value>> entries of the objects of v, at any depth
RECURSIVE PairsIn(_)
PairsIn(v) ==
    IF v.t = "obj"
    THEN UNION {{v.pairs[i]} \cup PairsIn(v.pairs[i][2]) : i \in 1..Len(v.pairs)}
    ELSE IF v.t = "arr" THEN UNION {PairsIn(v.items[i]) : i \in 1..Len(v.items)}
    ELSE {}

KeysIn(v) == {p[1] : p \in PairsIn(v)}

\* the string values of v, at any depth (v itself included)
RECURSIVE StringValuesIn(_)
StringValuesIn(v) ==
    IF v.t = "str" THEN {v.s}
    ELSE IF v.t = "obj"
    THEN UNION {StringValuesIn(v.pairs[i][2]) : i \in 1..Len(v.pairs)}
    ELSE IF v.t = "arr" THEN UNION {StringValuesIn(v.items[i]) : i \in 1..Len(v.items)}
    ELSE {}

StringsIn(v) == KeysIn(v) \cup StringValuesIn(v)

\* no dollar, no dot and no control character
Neutral(s) == \A i \in 1..Len(s) : s[i] \notin {"$", "."} \cup ControlChars

(***************************************************************************)
(* Properties of the sanitizers                                            *)
(***************************************************************************)

\* C1: under the default configuration the String Sanitizer's output for a
\* string that is not an e-mail address holds no dollar, no dot and no
\* control character; so every string key and string value, at any depth,
\* of what the Dispatcher returns is free of them, unless it is an e-mail
\* address of the input that passed through unchanged.  The same holds for a
\* route parameter.
C1_PatternNeutralization ==
    (options = DefaultConfiguration /\ Len(result) >= 1) =>
        /\ result[1].err = "none"
        /\ (isString(value) /\ ~isEmail(value)) =>
               (isString(result[1].v) /\ Neutral(result[1].v.s))
        /\ \A s \in StringsIn(result[1].v) :
               Neutral(s) \/ (isEmail(Str(s)) /\ s \in StringsIn(value))

\* C1 witness: an object with a dangerous key and a dangerous nested string
\* value has been sanitized under the default configuration.
C1_Witness ==
    /\ options = DefaultConfiguration
    /\ via = "sanitizeValue"
    /\ Len(result) = 1
    /\ isPlainObject(value)
    /\ \E k \in KeysIn(value) : ~Neutral(k)
    /\ \E p \in PairsIn(value) :
          /\ p[2].t \in {"obj", "arr"}
          /\ \E s \in StringValuesIn(p[2]) : ~Neutral(s) /\ ~isEmail(Str(s))
    /\ result[1].v # value

\* C2: whatever the deny-list, no key of the returned object, at any depth,
\* is a member of the deny-list unless the value under it is an e-mail
\* address.
C2_DenyPrecedence ==
    (via = "sanitizeValue" /\ Len(result) >= 1 /\ result[1].err = "none") =>
        \A p \in PairsIn(result[1].v) :
            p[1] \in options.deniedKeys.elems => isEmail(p[2])

\* C3: with no allow-list, an entry of the object whose key is in the
\* deny-list and whose value is an e-mail address is kept, value unmodified,
\* under its sanitized key (no other entry sanitizing to that key).
C3_DeniedEmailKept ==
    (/\ via = "sanitizeValue"
     /\ Len(result) = 1
     /\ isPlainObject(value)
     /\ sizeOf(options.allowedKeys) = 0
     /\ ~options.removeMatches
     /\ ~options.removeEmpty) =>
        \A i \in 1..Len(value.pairs) :
            LET key == value.pairs[i][1]
                val == value.pairs[i][2]
                sanitizedKey(k) == sanitizeString(Str(k), options, FALSE).s
            IN (/\ key \in options.deniedKeys.elems
                /\ isEmail(val)
                /\ \A j \in 1..Len(value.pairs) :
                       j # i => sanitizedKey(value.pairs[j][1]) # sanitizedKey(key)) =>
                   /\ result[1].err = "none"
                   /\ \E j \in 1..Len(result[1].v.pairs) :
                          result[1].v.pairs[j] = <<sanitizedKey(key), val>>

\* C4: with a non-empty allow-list every key of the returned object, at any
\* depth, is a member of the allow-list.
C4_AllowedKeysOnly ==
    (/\ via = "sanitizeValue"
     /\ Len(result) >= 1
     /\ result[1].err = "none"
     /\ sizeOf(options.allowedKeys) > 0) =>
        \A k \in KeysIn(result[1].v) : k \in options.allowedKeys.elems

\* C5: sanitizing a sanitized value again with the same configuration
\* returns it unchanged.
C5_Idempotent ==
    Len(result) = 2 => (result[2].err = "none" /\ result[2].v = result[1].v)

\* the items of s at the positions in I, in their order
Pick(s, I) ==
    [k \in 1..Cardinality(I) |->
        s[CHOOSE i \in I : Cardinality({j \in I : j < i}) = k - 1]]

\* each item of the input array sanitized by the Dispatcher as a value
ItemsSanitized(arr) ==
    [i \in 1..Len(arr.items) |-> sanitizeValue(arr.items[i], options, TRUE, FreshIndex).v]

\* the falsy items dropped when filterNull is set
FalsyDropped(s) ==
    IF options.arrayOptions.filterNull THEN Pick(s, {i \in 1..Len(s) : Truthy(s[i])}) ELSE s

\* an array has been sanitized, no removal by match configured
ArraySanitized ==
    /\ via = "sanitizeValue"
    /\ Len(result) >= 1
    /\ isArray(value)
    /\ ~options.removeMatches

C13_RecursiveOption ==
    (/\ via = "sanitizeValue"
     /\ Len(result) >= 1
     /\ value.t \in {"arr", "obj"}) =>
        /\ options = DefaultConfiguration =>
               \A s \in StringsIn(result[1].v) :
                   Neutral(s) \/ (isEmail(Str(s)) /\ s \in StringsIn(value))
        /\ options = [DefaultConfiguration EXCEPT !.recursive = FALSE] =>
               /\ result[1].err = "none"
               /\ value.t = "arr" =>
                      \A i \in 1..Len(value.items) :
                          value.items[i].t \in {"arr", "obj"} =>
                              result[1].v.items[i] = value.items[i]
               /\ (value.t = "obj" /\ Len(value.pairs) = 1) =>
                      (value.pairs[1][2].t \in {"arr", "obj"} =>
                          result[1].v.pairs[1][2] = value.pairs[1][2])

\* some configured pattern matches somewhere in s
Matches(s) ==
    \E k \in 1..Len(options.patterns), i \in 1..Len(s) :
        MatchLen(options.patterns[k], s, i) > 0

\* the entry is one that removeMatches is to drop
ToRemove(entry) == Matches(entry[1]) \/ (isString(entry[2]) /\ Matches(entry[2].s))

\* C15: with removeMatches set, in every call of the Object Sanitizer, the
\* first or a later one, an entry whose original key matches a pattern, or
\* whose original value is a string matching a pattern, is absent from the
\* output: its sanitized key is no key of the output unless an entry that is
\* not to be removed has the same sanitized key.
C15_RemoveMatches ==
    (/\ via = "sanitizeValue"
     /\ Len(result) >= 1
     /\ options = [DefaultConfiguration EXCEPT !.removeMatches = TRUE]
     /\ isPlainObject(value)) =>
        LET sanitizedKey(k) == sanitizeString(Str(k), options, FALSE).s
        IN /\ result[1].err = "none"
           /\ \A i \in 1..Len(value.pairs) :
                 ToRemove(value.pairs[i]) =>
                     \/ \A j \in 1..Len(result[1].v.pairs) :
                            result[1].v.pairs[j][1] # sanitizedKey(value.pairs[i][1])
                     \/ \E j \in 1..Len(value.pairs) :
                            /\ ~ToRemove(value.pairs[j])
                            /\ sanitizedKey(value.pairs[j][1]) = sanitizedKey(value.pairs[i][1])

\* a value the Dispatcher is to return as it is: falsy, a primitive, a date,
\* or of no kind it knows
PassedThrough(v) == ~Truthy(v) \/ isPrimitive(v) \/ isDate(v) \/ v.t \notin {"arr", "obj", "str"}

\* C17: the Dispatcher never raises the structural type_error of the Array
\* and Object Sanitizers, on a value of any shape and nesting, and returns
\* falsy values, primitives, dates and values of no known kind unchanged, at
\* the top level and as items of an array.
C17_NoStructuralError ==
    (via = "sanitizeValue" /\ Len(result) >= 1) =>
        /\ \A k \in 1..Len(result) : result[k].err = "none"
        /\ PassedThrough(value) => result[1].v = value
        /\ (isArray(value) /\ options.arrayOptions = [filterNull |-> FALSE, distinct |-> FALSE]) =>
               \A i \in 1..Len(value.items) :
                   PassedThrough(value.items[i]) => result[1].v.items[i] = value.items[i]

\* C17 witness: an array holding a date, a function and an object with a
\* function and a date as values went through the Dispatcher; only the key
\* of the object changed.
C17_Witness ==
    /\ via = "sanitizeValue"
    /\ Len(result) = 1
    /\ options = DefaultConfiguration
    /\ value = Arr(<<DateV, Fn("f"), Obj(<< <<(<<"$", "a">>), Fn("f")>>, <<(<<"A">>), DateV>> >>)>>)
    /\ result[1].err = "none"
    /\ result[1].v = Arr(<<DateV, Fn("f"), Obj(<< <<(<<"a">>), Fn("f")>>, <<(<<"A">>), DateV>> >>)>>)

\* every character of s that a default pattern matches replaced by w
RECURSIVE Substituted(_, _)
Substituted(s, w) ==
    IF s = <<>> THEN <<>>
    ELSE (IF Head(s) \in {"$", "."} \cup MetaChars \cup ControlChars THEN w ELSE <<Head(s)>>)
             \o Substituted(Tail(s), w)

RECURSIVE DropLeadingSpace(_)
DropLeadingSpace(s) ==
    IF s # <<>> /\ Head(s) \in WhiteSpace THEN DropLeadingSpace(Tail(s)) ELSE s

RECURSIVE DropTrailingSpace(_)
DropTrailingSpace(s) ==
    IF s # <<>> /\ s[Len(s)] \in WhiteSpace
    THEN DropTrailingSpace(SubSeq(s, 1, Len(s) - 1)) ELSE s

\* substitution, then trim, then lowercase, as the string options say
Shaped(s) ==
    LET substituted == Substituted(s, options.replaceWith)
        trimmed == IF options.stringOptions.trim
                   THEN DropTrailingSpace(DropLeadingSpace(substituted)) ELSE substituted
    IN IF options.stringOptions.lowercase
       THEN [i \in 1..Len(trimmed) |-> toLowerCase(trimmed[i])] ELSE trimmed

\* and then the truncation to maxLength, if there is one
Truncated(s) ==
    IF options.stringOptions.maxLength # 0 /\ Len(s) > options.stringOptions.maxLength
    THEN SubSeq(s, 1, options.stringOptions.maxLength) ELSE s

\* what the String Sanitizer is to return for a string sanitized as a value
AsValue(v) == IF isEmail(v) THEN v ELSE Str(Truncated(Shaped(v.s)))

\* what it is to return for a string sanitized as a key
AsKey(k) == IF isEmail(Str(k)) THEN k ELSE Shaped(k)

\* C18: a string that is not an e-mail address goes through the pattern
\* substitution, then trim, then lowercase, then truncation to maxLength,
\* the last only when it is sanitized as a value (a route parameter, the
\* value of an entry, an item of an array) and never for the key of an
\* entry; an e-mail address is returned unchanged.
C18_StringPipeline ==
    (Len(result) >= 1 /\ result[1].err = "none" /\ ~options.removeMatches /\ ~options.removeEmpty
       /\ sizeOf(options.allowedKeys) = 0 /\ sizeOf(options.deniedKeys) = 0
       /\ options.arrayOptions = [filterNull |-> FALSE, distinct |-> FALSE]) =>
        /\ \A v \in {Null, Num(1), Bool(TRUE), DateV} : sanitizeString(v, options, TRUE) = v
        /\ (via = "param" /\ isString(value)) => result[1].v = AsValue(value)
        /\ (via = "sanitizeValue" /\ isString(value)) =>
               result[1].v = (IF isEmail(value) THEN value ELSE Str(Shaped(value.s)))
        /\ (via = "sanitizeValue" /\ isArray(value)) =>
               \A i \in 1..Len(value.items) :
                   isString(value.items[i]) => result[1].v.items[i] = AsValue(value.items[i])
        /\ (via = "sanitizeValue" /\ isPlainObject(value) /\ Len(value.pairs) = 1) =>
               /\ Len(result[1].v.pairs) = 1
               /\ result[1].v.pairs[1][1] = AsKey(value.pairs[1][1])
               /\ isString(value.pairs[1][2]) =>
                      result[1].v.pairs[1][2] = AsValue(value.pairs[1][2])

\* C18 witness: with trim, lowercase and maxLength 2, the entry with key
\* " A$aa" and value " A.$a " became the entry with key "aaa" and value "aa".
C18_Witness ==
    /\ via = "sanitizeValue"
    /\ options.stringOptions = [trim |-> TRUE, lowercase |-> TRUE, maxLength |-> 2]
    /\ value = Obj(<< <<(<<" ", "A", "$", "a", "a">>), Str(<<" ", "A", ".", "$", "a", " ">>)>> >>)
    /\ Len(result) = 1
    /\ result[1].v = Obj(<< <<(<<"a", "a", "a">>), Str(<<"a", "a">>)>> >>)

\* the entry is kept by the Object Sanitizer: it passes the allow-list and
\* the deny-list, and removeEmpty does not drop it
Kept(entry) ==
    /\ sizeOf(options.allowedKeys) = 0 \/ entry[1] \in options.allowedKeys.elems
    /\ entry[1] \notin options.deniedKeys.elems
    /\ options.removeEmpty =>
           /\ sanitizeString(Str(entry[1]), options, FALSE).s # <<>>
           /\ Truthy(sanitizeValue(entry[2], options, TRUE, FreshIndex).v)

\* C19: the object returned has no more entries than the input and its keys
\* are distinct; under each key it holds the sanitized value of the last
\* kept entry of the input, in iteration order, whose key sanitizes to it.
C19_LastKeptWins ==
    (/\ via = "sanitizeValue"
     /\ Len(result) >= 1
     /\ isPlainObject(value)
     /\ ~options.removeMatches) =>
        LET out == result[1].v.pairs
            sanitizedKey(i) == sanitizeString(Str(value.pairs[i][1]), options, FALSE).s
            From(key) == {i \in 1..Len(value.pairs) :
                             Kept(value.pairs[i]) /\ sanitizedKey(i) = key}
        IN /\ result[1].err = "none"
           /\ Len(out) <= Len(value.pairs)
           /\ \A i, j \in 1..Len(out) : i # j => out[i][1] # out[j][1]
           /\ \A i \in 1..Len(value.pairs) :
                 Kept(value.pairs[i]) => \E j \in 1..Len(out) : out[j][1] = sanitizedKey(i)
           /\ \A j \in 1..Len(out) :
                 /\ From(out[j][1]) # {}
                 /\ out[j][2] = sanitizeValue(value.pairs[MaxOf(From(out[j][1]))][2],
                                              options, TRUE, FreshIndex).v

\* C19 witness: {"$a": 1, "a": "$A"} became {"a": "A"}: both keys sanitize
\* to "a" and the value of the later entry stays.
C19_Witness ==
    /\ via = "sanitizeValue"
    /\ Len(result) = 1
    /\ options = DefaultConfiguration
    /\ value = Obj(<< <<(<<"$", "a">>), Num(1)>>, <<(<<"a">>), Str(<<"$", "A">>)>> >>)
    /\ result[1].v = Obj(<< <<(<<"a">>), Str(<<"A">>)>> >>)

(***************************************************************************)
(* Properties of the middleware                                            *)
(***************************************************************************)

\* the request in flight was not skipped and no custom sanitizer is set
Handled ==
    /\ setup.status = "middleware"
    /\ pc = "handler"
    /\ ~calls.skipped
    /\ options.customSanitizer = "null"

\* the configured section names
Configured == {options.sanitizeObjects[k] : k \in 1..Len(options.sanitizeObjects)}

\* the sanitized value of a section of the request as received
SanitizedSection(name) ==
    sanitizeValue(received.sections[name], options, FALSE, FreshIndex).v

\* C6: in manual mode a request that is not skipped reaches the next stage
\* with a callable sanitize attached and every section as received; the
\* sections stay so until the callable is invoked, and invoking it with no
\* overrides leaves in each configured section its sanitized value under the
\* base configuration.
C6_ManualMode ==
    (Handled /\ options.mode = "manual") =>
        /\ req.sanitize
        /\ calls.next = 1
        /\ calls.sanitize = 0 => req.sections = received.sections
        /\ (calls.sanitize = 1 /\ ~calls.overridden) =>
               /\ calls.sanitizeThrown = "none"
               /\ \A name \in Configured : req.sections[name] = SanitizedSection(name)

\* the path of a url: what precedes the first "?" or "#"
RECURSIVE PathOf(_)
PathOf(s) ==
    IF s = <<>> \/ Head(s) \in {"?", "#"} THEN <<>> ELSE <<Head(s)>> \o PathOf(Tail(s))

RECURSIVE DropLeadingSlashes(_)
DropLeadingSlashes(s) ==
    IF s # <<>> /\ Head(s) = "/" THEN DropLeadingSlashes(Tail(s)) ELSE s

RECURSIVE DropTrailingSlashes(_)
DropTrailingSlashes(s) ==
    IF s # <<>> /\ s[Len(s)] = "/" THEN DropTrailingSlashes(SubSeq(s, 1, Len(s) - 1)) ELSE s

\* the normalized form of a path: query and fragment stripped, leading and
\* trailing slashes stripped, one leading slash
Normalized(s) == <<"/">> \o DropTrailingSlashes(DropLeadingSlashes(PathOf(s)))

\* for a skipped request no section is modified, no sanitize callable is
\* attached and the next stage is called
SkippedUntouched ==
    (setup.status = "middleware" /\ pc = "handler" /\ calls.skipped) =>
        /\ req.sections = received.sections
        /\ req.writable = received.writable
        /\ ~req.sanitize
        /\ calls.next = 1

\* with skipRoutes ["/health"]: "/health/" and "/health?x=1" are skipped,
\* "/healthcheck" is not
SkipExamples ==
    (/\ setup.status = "middleware"
     /\ pc = "handler"
     /\ options.skipRoutes.elems = {<<"/", "health">>}) =>
        /\ received.url.s \in {<<"/", "health", "/">>, <<"/", "health", "?", "x">>} =>
               calls.skipped
        /\ received.url.s = <<"/", "health", "check">> => ~calls.skipped

\* C7 as stated: a request is skipped exactly when its normalized path equals
\* the normalized form of some configured skip path; a skipped request is
\* left untouched in both modes.
C7_SkipExactness ==
    /\ (setup.status = "middleware" /\ pc = "handler") =>
           (calls.skipped <=>
               \E skipPath \in options.skipRoutes.elems :
                   Normalized(skipPath) = Normalized(received.url.s))
    /\ SkipExamples
    /\ SkippedUntouched

\* C7 amended: a request is skipped exactly when its normalized path equals
\* the normalized form of some configured skip path that is not the empty
\* string (the empty string has no normalized form and matches no request);
\* a skipped request is left untouched in both modes.
C7_SkipExactnessNonEmpty ==
    /\ (setup.status = "middleware" /\ pc = "handler") =>
           (calls.skipped <=>
               \E skipPath \in options.skipRoutes.elems :
                   /\ skipPath # <<>>
                   /\ Normalized(skipPath) = Normalized(received.url.s))
    /\ SkipExamples
    /\ SkippedUntouched

\* C7 witness: under skip paths "health/" and "", in manual mode, the request
\* "//health#x" with a dangerous body was skipped.
C7_Witness ==
    /\ setup.status = "middleware"
    /\ pc = "handler"
    /\ calls.skipped
    /\ options.mode = "manual"
    /\ options.skipRoutes.elems = {<<"health", "/">>, <<>>}
    /\ received.url.s = <<"/", "/", "health", "#", "x">>
    /\ received.sections.body = Obj(<< <<(<<"$", "a">>), Str(<<"$", "A">>)>> >>)
    /\ req.sections = received.sections

\* C8: in auto mode, when a request that is not skipped reaches the next
\* stage, every configured section that was present and not empty holds its
\* sanitized value, whether its binding is writable or not.
C8_AutoWriteBack ==
    (Handled /\ options.mode = "auto") =>
        \A name \in Configured :
            (Truthy(received.sections[name]) /\ ~isObjectEmpty(received.sections[name])) =>
                req.sections[name] = SanitizedSection(name)

\* C9: for every request handed to the middleware the continuation next is
\* called exactly once, with no error argument, the middleware throws
\* nothing and never writes to the response.
C9_NextExactlyOnce ==
    (setup.status = "middleware" /\ pc # "idle") =>
        /\ pc = "handler"
        /\ calls.next = 1
        /\ ~calls.nextError
        /\ calls.thrown = "none"
        /\ calls.response = 0

\* C10: the setup call throws a type_error, naming the first failing option
\* in table order, whenever an option given has a value outside its declared
\* type, and no request is processed then; a valid configuration never
\* throws.
C10_SetupTypeError ==
    setup.status # "pending" =>
        LET bad == {k \in 1..Len(OptionNames) :
                       /\ userOptions[OptionNames[k]] # Absent
                       /\ ~DeclaredType(OptionNames[k], userOptions[OptionNames[k]])}
        IN IF bad = {} THEN setup.status = "middleware"
           ELSE /\ setup = [status |-> "type_error", field |-> OptionNames[MinOf(bad)]]
                /\ calls.served = 0
                /\ pc = "idle"

\* the Adapter has run on the request in flight with the configuration of
\* the setup: in auto mode by the middleware, in manual mode by one call of
\* the callable with no overrides
AdapterRan ==
    /\ setup.status = "middleware"
    /\ pc \in {"handler", "error"}
    /\ ~calls.skipped
    /\ \/ options.mode = "auto"
       \/ options.mode = "manual" /\ calls.sanitize = 1 /\ ~calls.overridden

\* the section was present and not empty when the request came in
Present(name) ==
    Truthy(received.sections[name]) /\ ~isObjectEmpty(received.sections[name])

\* the positions in the log of the sanitizer calls made for a section
CallsFor(name) == {i \in 1..Len(calls.log) : calls.log[i].section = name}

\* C12: with a custom sanitizer configured, for each configured section that
\* is present and not empty the Adapter calls the custom sanitizer exactly
\* once, with a copy of the section and the whole configuration, never calls
\* the Dispatcher, and leaves what the custom sanitizer returned as the
\* section.
C12_CustomSanitizer ==
    (AdapterRan /\ options.customSanitizer # "null") =>
        /\ \A i \in 1..Len(calls.log) : calls.log[i].by = "customSanitizer"
        /\ \A name \in Configured :
              Present(name) =>
                  /\ Cardinality(CallsFor(name)) = 1
                  /\ \A i \in CallsFor(name) :
                        /\ calls.log[i].arg = snapshot(received.sections[name])
                        /\ calls.log[i].opts = options
                        /\ req.sections[name] = calls.log[i].ret

\* the options of the setup overridden field by field by the overrides of
\* the last call of the callable
MergedOptions ==
    [f \in DOMAIN userOptions |->
        IF calls.customOpts[f] # Absent THEN calls.customOpts[f] ELSE userOptions[f]]

\* what the Adapter of a middleware set up with the merged options does with
\* the request as the callable found it
MergedRun ==
    handleRequest([received EXCEPT !.sanitize = TRUE],
                  resolve(spread(DEFAULT_OPTIONS, MergedOptions), MergedOptions),
                  FreshIndex, [name \in SectionNames |-> Null])

\* C14: the callable of manual mode, called with overrides valid at setup,
\* does not raise and leaves the request as the Adapter of a middleware set
\* up with the merged options would.
C14_OverridesAsMerged ==
    (/\ setup.status = "middleware"
     /\ pc = "handler"
     /\ options.mode = "manual"
     /\ options.customSanitizer = "null"
     /\ ~calls.skipped
     /\ calls.sanitize = 1) =>
        /\ calls.sanitizeThrown = "none"
        /\ req.sections = MergedRun.req.sections

\* what the Adapter does with the request in flight when no request was
\* processed before it
FirstRun ==
    handleRequest(received, options, FreshIndex, [name \in SectionNames |-> Null])

\* C16: the sanitized sections of a request depend on the request and the
\* configuration only: whatever requests were processed before, they are
\* those the same request gets when it is the first one.
C16_HistoryIndependent ==
    (Handled /\ options.mode = "auto") =>
        req.sections = FirstRun.req.sections

====
